---------------------------- MODULE Spec2Model ----------------------------
(***************************************************************************)
(* A model of src/paper.py (class ArxivPaper): the cached property tex     *)
(* (archive reading, noise stripping, main-document resolution, include    *)
(* flattening) and its callers tldr and affiliations.                      *)
(*                                                                         *)
(* A text is a sequence of lexemes.  The backslash, the braces, the        *)
(* percent sign, the newline and the blanks are lexemes of their own, so   *)
(* that \\ is two backslash lexemes and \% is a backslash followed by a    *)
(* percent sign; a word (section, input, comment, ...) is one lexeme.      *)
(* Every regular expression of the source is an operator that computes,    *)
(* on such a text, what Python's re module computes on its characters.     *)
(***************************************************************************)
EXTENDS Integers, Sequences, FiniteSets

\* ------------------------------------------------------------------ bounds
\* Longest archive listing (number of members) of the tex specification.
MaxMembers == 3
\* Longest raw text, in items, given to the noise stripper.
MaxStripItems == 4
\* Longest root document, in items, given to the include flattener.
MaxRootItems == 2
\* Longest text, in items, given to the section extractor.
MaxSecItems == 3

\* ----------------------------------------------------------------- lexemes
BS == "\\"
NL == "\n"
PCT == "%"
SP == " "
TAB == "\t"
LB == "{"
RB == "}"
TILDE == "~"

\* The lexemes that are one character long and are not the newline: what a
\* single "." of a pattern can match.
OneChar == {BS, PCT, SP, TAB, LB, RB, TILDE, "a", "b", "c", "s", "t", "u", "p"}

\* [ \t\r\f] of the whitespace pattern.
Blank == {SP, TAB, "\r", "\f"}
\* {3,} of the whitespace pattern.
MinBlankRun == 3

\* \word
Cmd(w) == <<BS, w>>
\* \word{arg}
CmdArg(w, arg) == <<BS, w, LB, arg, RB>>

BeginComment == CmdArg("begin", "comment")
EndComment == CmdArg("end", "comment")
IfFalse == Cmd("iffalse")
Fi == Cmd("fi")
BeginDocument == CmdArg("begin", "document")
EndDocument == CmdArg("end", "document")
BeginAbstract == CmdArg("begin", "abstract")
BeginFigure == CmdArg("begin", "figure")
EndFigure == CmdArg("end", "figure")
BeginTable == CmdArg("begin", "table")
EndTable == CmdArg("end", "table")
SectionCmd == Cmd("section")
SectionIntroduction == CmdArg("section", "Introduction")
SectionConclusion == CmdArg("section", "Conclusion")
Bibliography == Cmd("bibliography")
Appendix == Cmd("appendix")
Author == Cmd("author")
MakeTitle == Cmd("maketitle")
InputOpen == <<BS, "input", LB>>
IncludeOpen == <<BS, "include", LB>>

\* ------------------------------------------------------- sequence helpers
From(s, i) == SubSeq(s, i, Len(s))

\* p occurs in s at position i.
OccursAt(s, p, i) ==
    /\ i >= 1
    /\ i + Len(p) - 1 <= Len(s)
    /\ \A k \in 1..Len(p) : s[i + k - 1] = p[k]

\* str.find: the first position >= from where p occurs in s, 0 when none.
Find(s, p, from) ==
    LET hits == {i \in from..(Len(s) - Len(p) + 1) : OccursAt(s, p, i)}
    IN IF hits = {} THEN 0 ELSE CHOOSE i \in hits : \A j \in hits : i <= j

\* re.search(p, s) for a literal p.
Contains(s, p) == Find(s, p, 1) # 0

\* str.replace(old, new): every non-overlapping occurrence of old, left to
\* right; the text put in is not scanned again.
RECURSIVE Replace(_, _, _)
Replace(s, old, new) ==
    LET i == Find(s, old, 1)
    IN IF old = <<>> \/ i = 0 THEN s
       ELSE SubSeq(s, 1, i - 1) \o new \o Replace(From(s, i + Len(old)), old, new)

\* re.sub(open.*?close, '', s, flags=re.DOTALL): at the first open, the lazy
\* .*? ends at the first close after it; with no close after it nothing
\* matches from there on.
RECURSIVE RemoveBlocks(_, _, _)
RemoveBlocks(s, open, close) ==
    LET i == Find(s, open, 1)
        j == IF i = 0 THEN 0 ELSE Find(s, close, i + Len(open))
    IN IF j = 0 THEN s
       ELSE SubSeq(s, 1, i - 1) \o RemoveBlocks(From(s, j + Len(close)), open, close)

\* ----------------------------------------------------------- noise stripper
\* re.sub(r'%.*\n', '\n', content): "." does not match the newline, so a
\* percent sign with no newline after it on its line starts no match.
RECURSIVE RemoveLineComments(_)
RemoveLineComments(s) ==
    IF s = <<>> THEN <<>>
    ELSE IF Head(s) = PCT
         THEN LET j == Find(s, <<NL>>, 1)
              IN IF j = 0 THEN s
                 ELSE <<NL>> \o RemoveLineComments(From(s, j + 1))
         ELSE <<Head(s)>> \o RemoveLineComments(Tail(s))

\* re.sub(r'\n+', '\n', content)
RECURSIVE CollapseNewlines(_)
CollapseNewlines(s) ==
    IF s = <<>> THEN <<>>
    ELSE IF Head(s) = NL /\ Len(s) >= 2 /\ s[2] = NL
         THEN CollapseNewlines(Tail(s))
         ELSE <<Head(s)>> \o CollapseNewlines(Tail(s))

\* re.sub(r'\\\\', '', content): pairs of backslashes, left to right.
RemoveLineBreaks(s) == Replace(s, <<BS, BS>>, <<>>)

\* The length of the run of blanks s starts with.
RECURSIVE BlankRun(_)
BlankRun(s) ==
    IF s # <<>> /\ Head(s) \in Blank THEN 1 + BlankRun(Tail(s)) ELSE 0

\* re.sub(r'[ \t\r\f]{3,}', ' ', content)
RECURSIVE CollapseBlanks(_)
CollapseBlanks(s) ==
    IF s = <<>> THEN <<>>
    ELSE LET n == BlankRun(s)
         IN IF n >= MinBlankRun THEN <<SP>> \o CollapseBlanks(From(s, n + 1))
            ELSE <<Head(s)>> \o CollapseBlanks(Tail(s))

\* The two block removals.
StripBeginComment(s) == RemoveBlocks(s, BeginComment, EndComment)
StripIfFalse(s) == RemoveBlocks(s, IfFalse, Fi)

\* The six substitutions applied to one file's content, in the source's order.
StripNoise(s) ==
    CollapseBlanks(
      RemoveLineBreaks(
        CollapseNewlines(
          StripIfFalse(StripBeginComment(RemoveLineComments(s))))))

\* re.search(r'\\begin\{document\}', content)
HasDocumentBlock(content) == Contains(content, BeginDocument)

\* The concatenation of a sequence of texts.
RECURSIVE Concat(_)
Concat(ss) == IF ss = <<>> THEN <<>> ELSE Head(ss) \o Concat(Tail(ss))

\* The texts of at most n items drawn from the set items.
TextsOf(items, n) ==
    {Concat(q) : q \in UNION {[1..k -> items] : k \in 0..n}}


\* ------------------------------------------------- optional texts and dicts
\* Python's None and a str, kept apart: None is not the empty text.
None == [isNone |-> TRUE, text |-> <<>>]
Str(s) == [isNone |-> FALSE, text |-> s]

\* A dict is the sequence of its <<key, value>> pairs in insertion order.
DictKeys(d) == [k \in 1..Len(d) |-> d[k][1]]
DictValues(d) == [k \in 1..Len(d) |-> d[k][2]]
DictHas(d, key) == \E k \in 1..Len(d) : d[k][1] = key
\* d.get(key, default)
DictGet(d, key, default) ==
    IF DictHas(d, key)
    THEN d[CHOOSE k \in 1..Len(d) : d[k][1] = key][2]
    ELSE default
\* d[key] = value
DictSet(d, key, value) ==
    IF DictHas(d, key)
    THEN [k \in 1..Len(d) |-> IF d[k][1] = key THEN <<key, value>> ELSE d[k]]
    ELSE Append(d, <<key, value>>)

\* The key of the flattened document.
AllKey == <<"all">>

\* sep.join(values) raises TypeError when a value is not a str.
JoinRaises(values) == \E k \in 1..Len(values) : values[k].isNone
RECURSIVE Join(_, _)
Join(sep, values) ==
    IF values = <<>> THEN <<>>
    ELSE IF Len(values) = 1 THEN values[1].text
    ELSE values[1].text \o sep \o Join(sep, Tail(values))

\* ---------------------------------------------------- main-document resolver
\* No file name: the value None of main_tex.
NoName == <<>>

EndsWith(name, ext) == name # <<>> /\ name[Len(name)] = ext
IsTex(name) == EndsWith(name, ".tex")
IsBbl(name) == EndsWith(name, ".bbl")

\* [f for f in tar.getnames() if f.endswith('.tex')]
TexFiles(members) == SelectSeq(members, IsTex)
\* [f for f in tar.getnames() if f.endswith('.bbl')]
BblFiles(members) == SelectSeq(members, IsBbl)

\* The test for an empty listing, off by one: a single .tex file counts as none.
NoTexFileOffByOne(texs) == Len(texs) <= 1

\* len(tex_files) == 0
NoTexFile(texs) == Len(texs) = 0

\* bbl_file[0].replace('.bbl', '') followed by ".tex"
BblMainTex(bbl) == Replace(bbl, <<".bbl">>, <<>>) \o <<".tex">>

InSeq(x, s) == \E k \in 1..Len(s) : s[k] = x

\* match len(bbl_file): the decision table.
TableRoot(texs, bbls) ==
    IF Len(bbls) = 0
    THEN IF Len(texs) > 1 THEN NoName ELSE texs[1]
    ELSE IF Len(bbls) = 1
         THEN IF InSeq(BblMainTex(bbls[1]), texs) THEN BblMainTex(bbls[1]) ELSE NoName
         ELSE NoName

\* The choice without its "main_tex is None" guard: the last file with the
\* document block wins.
ChooseMainLast(main, t, content) ==
    IF HasDocumentBlock(content) THEN t ELSE main

\* if main_tex is None and re.search(r'\\begin\{document\}', content): main_tex = t
ChooseMain(main, t, content) ==
    IF main = NoName /\ HasDocumentBlock(content) THEN t ELSE main

\* ----------------------------------------------------------- include flattener
\* re.findall(open + r'(.+?)\}', s): the argument is at least one character
\* of the line, up to the first closing brace after it.
RECURSIVE FindAllArgs(_, _)
FindAllArgs(s, open) ==
    LET i == Find(s, open, 1)
        st == i + Len(open)
        j == IF i = 0 THEN 0 ELSE Find(s, <<RB>>, st + 1)
        ok == j # 0 /\ \A k \in st..(j - 1) : s[k] # NL
    IN IF i = 0 THEN <<>>
       ELSE IF ok THEN <<SubSeq(s, st, j - 1)>> \o FindAllArgs(From(s, j + 1), open)
       ELSE FindAllArgs(From(s, i + 1), open)

\* re.findall(r'\\input\{(.+?)\}', ..) + re.findall(r'\\include\{(.+?)\}', ..)
IncludeFiles(source) == FindAllArgs(source, InputOpen) \o FindAllArgs(source, IncludeOpen)

\* file_name = f + '.tex' unless f ends with '.tex'
IncludeFileName(f) == IF IsTex(f) THEN f ELSE f \o <<".tex">>

\* f'\\input{{{f}}}'
InputMarker(f) == InputOpen \o f \o <<RB>>
IncludeMarker(f) == IncludeOpen \o f \o <<RB>>

\* main_source.replace(f'\\input{{{f}}}', file_contents.get(file_name, ''))
SubstituteInclude(source, f, contents) ==
    Replace(source, InputMarker(f), DictGet(contents, IncludeFileName(f), Str(<<>>)).text)

\* ------------------------------------------------------------ scoped resources
\* An exit that closes only the context entered last.
ExitStackCloseTop(entered, open) ==
    IF entered = <<>> THEN open ELSE open \ {entered[Len(entered)]}

\* ExitStack.__exit__: every context entered is exited; what is left on disk.
ExitStackClose(entered, open) == open \ {entered[k] : k \in 1..Len(entered)}

\* ------------------------------------------------------------ section extractor
CiteCmd == Cmd("cite")

NoNewline(s, from, to) == \A k \in from..to : s[k] # NL

\* Where the rest of ~?\\cite.?\{.*?\} ends when \cite occurs at i (0: no
\* match).  The greedy .? first takes one character, then gives it back.
CiteEnd(s, i) ==
    LET a == i + Len(CiteCmd)
        bodyA == a + 2
        bodyB == a + 1
        endA == IF a + 1 <= Len(s) /\ s[a] \in OneChar /\ s[a + 1] = LB
                THEN Find(s, <<RB>>, bodyA) ELSE 0
        endB == IF a <= Len(s) /\ s[a] = LB THEN Find(s, <<RB>>, bodyB) ELSE 0
    IN IF endA # 0 /\ NoNewline(s, bodyA, endA - 1) THEN endA
       ELSE IF endB # 0 /\ NoNewline(s, bodyB, endB - 1) THEN endB
       ELSE 0

\* re.sub(r'~?\\cite.?\{.*?\}', '', content)
RECURSIVE RemoveCites(_)
RemoveCites(s) ==
    IF s = <<>> THEN <<>>
    ELSE IF Head(s) = TILDE /\ OccursAt(s, CiteCmd, 2) /\ CiteEnd(s, 2) # 0
         THEN RemoveCites(From(s, CiteEnd(s, 2) + 1))
    ELSE IF OccursAt(s, CiteCmd, 1) /\ CiteEnd(s, 1) # 0
         THEN RemoveCites(From(s, CiteEnd(s, 1) + 1))
    ELSE <<Head(s)>> \o RemoveCites(Tail(s))

\* The cleaning of tldr before the sections are searched.
CleanForSections(s) ==
    RemoveBlocks(RemoveBlocks(RemoveCites(s), BeginFigure, EndFigure),
                 BeginTable, EndTable)

\* (\\section|\\end\{document\}|\\bibliography|\\appendix|$) at position j:
\* the number of lexemes the alternative that matches takes, and whether one
\* matches.  "$" matches at the end and before a final newline.
EndWords == <<SectionCmd, EndDocument, Bibliography, Appendix>>
EndWordAt(s, j) == {k \in 1..Len(EndWords) : OccursAt(s, EndWords[k], j)}
AtDollar(s, j) == j = Len(s) + 1 \/ (j = Len(s) /\ s[j] = NL)
EndAt(s, j) == EndWordAt(s, j) # {} \/ AtDollar(s, j)
EndLen(s, j) ==
    IF EndWordAt(s, j) = {} THEN 0
    ELSE Len(EndWords[CHOOSE k \in EndWordAt(s, j) : \A m \in EndWordAt(s, j) : k <= m])

\* match.group(0) of re.search(heading + r'.*?(...)', s, flags=re.DOTALL), or
\* the default "" when nothing matches.
SearchSection(s, heading) ==
    LET i == Find(s, heading, 1)
        st == i + Len(heading)
        j == CHOOSE j \in st..(Len(s) + 1) :
                 EndAt(s, j) /\ \A m \in st..(j - 1) : ~EndAt(s, m)
    IN IF i = 0 THEN <<>> ELSE SubSeq(s, i, j + EndLen(s, j) - 1)

\* re.search(open + '.*?' + close, s, flags=re.DOTALL): None, or group(0).
SearchRegion(s, open, close) ==
    LET i == Find(s, open, 1)
        j == IF i = 0 THEN 0 ELSE Find(s, close, i + Len(open))
    IN IF j = 0 THEN None ELSE Str(SubSeq(s, i, j + Len(close) - 1))

\* next((m for m in matches if m), None) over possible_regions
InformationRegion(s) ==
    IF ~SearchRegion(s, Author, MakeTitle).isNone
    THEN SearchRegion(s, Author, MakeTitle)
    ELSE SearchRegion(s, BeginDocument, BeginAbstract)

\* ------------------------------------------------------------------- inputs
\* Member names of an archive: a name is the sequence of its parts, the
\* extension last ("m.bbl.bbl" is <<"m", ".bbl", ".bbl">>).
NamePool ==
    { <<"m", ".tex">>, <<"s", ".tex">>, <<"m", ".bbl", ".tex">>,
      <<"m", ".bbl">>, <<"r", ".bbl">>, <<"m", ".bbl", ".bbl">>,
      <<"f", ".png">> }

Distinct(q) == \A i, j \in 1..Len(q) : i # j => q[i] # q[j]

\* tar.getnames(): at most MaxMembers distinct names, in archive order.
Listings ==
    {q \in UNION {[1..k -> NamePool] : k \in 0..MaxMembers} : Distinct(q)}

\* Raw contents of a .tex member of the archive.
RawPool ==
    { <<"a">>,
      BeginDocument \o <<"a">>,
      <<PCT>> \o BeginDocument \o <<NL, "a">>,
      Author \o MakeTitle \o BeginDocument \o InputMarker(<<"s">>) }

SeqToSet(q) == {q[k] : k \in 1..Len(q)}

\* -------------------------------------------------------------------- state
VARIABLES
    isTar,          \* the downloaded file is a tar archive
    members,        \* tar.getnames()
    data,           \* the decoded content of each .tex member
    pc,             \* where the call of tex stands
    entered,        \* the contexts the ExitStack has entered
    live,           \* the resources that exist: "tmpdir", "tar"
    tex_files, bbl_file, main_tex, file_contents, idx,
    include_files, main_source, inc_idx,
    tex,            \* the cached value of the property tex
    tldr_pc, introduction, conclusion,
    aff_pc, information_region,
    content, strip_pc   \* one file's content along the six substitutions

texVars == <<isTar, members, data, pc, entered, live, tex_files, bbl_file,
             main_tex, file_contents, idx, include_files, main_source,
             inc_idx, tex>>
callerVars == <<tldr_pc, introduction, conclusion, aff_pc, information_region>>
stripVars == <<content, strip_pc>>
vars == <<texVars, callerVars, stripVars>>

\* The value of tex: None, or the dict file_contents.
NoTable == [isNone |-> TRUE, table |-> <<>>]
Table(d) == [isNone |-> FALSE, table |-> d]

InitCallers ==
    /\ tldr_pc = "idle" /\ introduction = <<>> /\ conclusion = <<>>
    /\ aff_pc = "idle" /\ information_region = None

InitStripIdle == content = <<>> /\ strip_pc = 6

InitLocals ==
    /\ tex_files = <<>> /\ bbl_file = <<>> /\ main_tex = NoName
    /\ file_contents = <<>> /\ idx = 1
    /\ include_files = <<>> /\ main_source = <<>> /\ inc_idx = 1
    /\ tex = NoTable

\* Before tex is first read: any download, any archive.
Init ==
    /\ isTar \in BOOLEAN
    /\ members \in (IF isTar THEN Listings ELSE {<<>>})
    /\ data \in [SeqToSet(TexFiles(members)) -> RawPool]
    /\ pc = "start" /\ entered = <<>> /\ live = {}
    /\ InitLocals /\ InitCallers /\ InitStripIdle

\* ------------------------------------------------------------------ tex
\* Leaving the with block by an exception.
Raise ==
    /\ live' = ExitStackClose(entered, live)
    /\ entered' = <<>>
    /\ pc' = "raised"

\* Leaving the with block by return.
Return(value) ==
    /\ live' = ExitStackClose(entered, live)
    /\ entered' = <<>>
    /\ tex' = value
    /\ pc' = "returned"

\* stack.enter_context(TemporaryDirectory())
EnterTmpDir ==
    /\ pc = "start"
    /\ entered' = Append(entered, "tmpdir")
    /\ live' = live \cup {"tmpdir"}
    /\ pc' = "download"
    /\ UNCHANGED <<isTar, members, data, tex_files, bbl_file, main_tex,
                   file_contents, idx, include_files, main_source, inc_idx, tex>>
    /\ UNCHANGED <<callerVars, stripVars>>

\* self._paper.download_source(dirpath=tmpdirname): succeeds or raises.
Download ==
    /\ pc = "download"
    /\ \E ok \in BOOLEAN :
         IF ok THEN pc' = "open" /\ UNCHANGED <<entered, live>>
         ELSE Raise
    /\ UNCHANGED <<isTar, members, data, tex_files, bbl_file, main_tex,
                   file_contents, idx, include_files, main_source, inc_idx, tex>>
    /\ UNCHANGED <<callerVars, stripVars>>

\* stack.enter_context(tarfile.open(file)), or ReadError and return None.
OpenTar ==
    /\ pc = "open"
    /\ IF isTar
       THEN /\ entered' = Append(entered, "tar")
            /\ live' = live \cup {"tar"}
            /\ pc' = "list"
            /\ UNCHANGED tex
       ELSE Return(NoTable)
    /\ UNCHANGED <<isTar, members, data, tex_files, bbl_file, main_tex,
                   file_contents, idx, include_files, main_source, inc_idx>>
    /\ UNCHANGED <<callerVars, stripVars>>

\* The listing of the archive and the decision table.
Resolve ==
    /\ pc = "list"
    /\ tex_files' = TexFiles(members)
    /\ IF NoTexFile(tex_files')
       THEN /\ Return(NoTable)
            /\ UNCHANGED <<bbl_file, main_tex>>
       ELSE /\ bbl_file' = BblFiles(members)
            /\ main_tex' = TableRoot(tex_files', bbl_file')
            /\ pc' = "read"
            /\ UNCHANGED <<entered, live, tex>>
    /\ file_contents' = <<>>
    /\ idx' = 1
    /\ UNCHANGED <<isTar, members, data, include_files, main_source, inc_idx>>
    /\ UNCHANGED <<callerVars, stripVars>>

\* One turn of "for t in tex_files": extract, decode, strip, choose, store.
\* tar.extractfile(t) and f.read() succeed or raise.
ReadFile ==
    /\ pc = "read"
    /\ idx <= Len(tex_files)
    /\ \E ok \in BOOLEAN :
         IF ok
         THEN LET t == tex_files[idx]
                  stripped == StripNoise(data[t])
              IN /\ main_tex' = ChooseMain(main_tex, t, stripped)
                 /\ file_contents' = DictSet(file_contents, t, Str(stripped))
                 /\ idx' = idx + 1
                 /\ UNCHANGED <<pc, entered, live>>
         ELSE /\ Raise
              /\ UNCHANGED <<main_tex, file_contents, idx>>
    /\ UNCHANGED <<isTar, members, data, tex_files, bbl_file, include_files,
                   main_source, inc_idx, tex>>
    /\ UNCHANGED <<callerVars, stripVars>>

\* After the loop: with a root, its includes are listed; with none, "all"
\* is None and the dict is returned.
FindIncludes ==
    /\ pc = "read"
    /\ idx > Len(tex_files)
    /\ IF main_tex # NoName
       THEN /\ main_source' = DictGet(file_contents, main_tex, None).text
            /\ include_files' = IncludeFiles(main_source')
            /\ inc_idx' = 1
            /\ pc' = "include"
            /\ UNCHANGED <<file_contents, entered, live, tex>>
       ELSE /\ file_contents' = DictSet(file_contents, AllKey, None)
            /\ Return(Table(file_contents'))
            /\ UNCHANGED <<main_source, include_files, inc_idx>>
    /\ UNCHANGED <<isTar, members, data, tex_files, bbl_file, main_tex, idx>>
    /\ UNCHANGED <<callerVars, stripVars>>

\* One turn of "for f in include_files".
Substitute ==
    /\ pc = "include"
    /\ inc_idx <= Len(include_files)
    /\ main_source' = SubstituteInclude(main_source, include_files[inc_idx], file_contents)
    /\ inc_idx' = inc_idx + 1
    /\ UNCHANGED <<isTar, members, data, pc, entered, live, tex_files, bbl_file,
                   main_tex, file_contents, idx, include_files, tex>>
    /\ UNCHANGED <<callerVars, stripVars>>

\* file_contents["all"] = main_source; return file_contents
ReturnTable ==
    /\ pc = "include"
    /\ inc_idx > Len(include_files)
    /\ file_contents' = DictSet(file_contents, AllKey, Str(main_source))
    /\ Return(Table(file_contents'))
    /\ UNCHANGED <<isTar, members, data, tex_files, bbl_file, main_tex, idx,
                   include_files, main_source, inc_idx>>
    /\ UNCHANGED <<callerVars, stripVars>>

\* --------------------------------------------------------------- callers
\* content = self.tex.get("all"); if content is None:
\*     content = "\n".join(self.tex.values())
FallbackRaises(table) ==
    DictGet(table, AllKey, None).isNone /\ JoinRaises(DictValues(table))
CallerContent(table) ==
    IF DictGet(table, AllKey, None).isNone
    THEN Join(<<NL>>, DictValues(table))
    ELSE DictGet(table, AllKey, None).text

\* tldr, up to the prompt handed to the language model.
Tldr ==
    /\ pc = "returned"
    /\ tldr_pc = "idle"
    /\ IF tex.isNone
       THEN tldr_pc' = "done" /\ UNCHANGED <<introduction, conclusion>>
       ELSE IF FallbackRaises(tex.table)
       THEN tldr_pc' = "raised" /\ UNCHANGED <<introduction, conclusion>>
       ELSE LET cleaned == CleanForSections(CallerContent(tex.table))
            IN /\ introduction' = SearchSection(cleaned, SectionIntroduction)
               /\ conclusion' = SearchSection(cleaned, SectionConclusion)
               /\ tldr_pc' = "done"
    /\ UNCHANGED <<aff_pc, information_region>>
    /\ UNCHANGED <<texVars, stripVars>>

\* affiliations: the region handed to the language model, whose answer is
\* parsed (a list) or not (None).
Affiliations ==
    /\ pc = "returned"
    /\ aff_pc = "idle"
    /\ IF tex.isNone
       THEN aff_pc' = "none" /\ UNCHANGED information_region
       ELSE IF FallbackRaises(tex.table)
       THEN aff_pc' = "raised" /\ UNCHANGED information_region
       ELSE LET region == InformationRegion(CallerContent(tex.table))
            IN /\ information_region' = region
               /\ IF region.isNone THEN aff_pc' = "none"
                  ELSE \E parsed \in BOOLEAN :
                         aff_pc' = IF parsed THEN "done" ELSE "none"
    /\ UNCHANGED <<tldr_pc, introduction, conclusion>>
    /\ UNCHANGED <<texVars, stripVars>>

Next ==
    \/ EnterTmpDir \/ Download \/ OpenTar \/ Resolve \/ ReadFile
    \/ FindIncludes \/ Substitute \/ ReturnTable
    \/ Tldr \/ Affiliations

Spec == Init /\ [][Next]_vars

\* ------------------------------------------- the noise stripper, step by step
StripItems ==
    { <<BS>>, <<PCT>>, <<NL>>, <<SP>>, <<"a">>,
      BeginComment, EndComment, IfFalse, Fi }

\* The archive of one file m.tex, inside the first turn of the reading loop,
\* its content just decoded.
InitStrip ==
    /\ isTar = TRUE
    /\ members = << <<"m", ".tex">> >>
    /\ data \in [{<<"m", ".tex">>} -> TextsOf(StripItems, MaxStripItems)]
    /\ pc = "read" /\ entered = <<"tmpdir", "tar">> /\ live = {"tmpdir", "tar"}
    /\ tex_files = members /\ bbl_file = <<>> /\ main_tex = members[1]
    /\ file_contents = <<>> /\ idx = 1
    /\ include_files = <<>> /\ main_source = <<>> /\ inc_idx = 1
    /\ tex = NoTable
    /\ InitCallers
    /\ content = data[members[1]] /\ strip_pc = 0

\* content = re.sub(r'%.*\n', '\n', content)
Sub1LineComments ==
    /\ strip_pc = 0
    /\ content' = RemoveLineComments(content)
    /\ strip_pc' = 1
    /\ UNCHANGED <<texVars, callerVars>>

\* content = re.sub(r'\\begin{comment}.*?\\end{comment}', '', content, flags=re.DOTALL)
Sub2CommentBlocks ==
    /\ strip_pc = 1
    /\ content' = StripBeginComment(content)
    /\ strip_pc' = 2
    /\ UNCHANGED <<texVars, callerVars>>

\* content = re.sub(r'\\iffalse.*?\\fi', '', content, flags=re.DOTALL)
Sub3IfFalseBlocks ==
    /\ strip_pc = 2
    /\ content' = StripIfFalse(content)
    /\ strip_pc' = 3
    /\ UNCHANGED <<texVars, callerVars>>

\* content = re.sub(r'\n+', '\n', content)
Sub4Newlines ==
    /\ strip_pc = 3
    /\ content' = CollapseNewlines(content)
    /\ strip_pc' = 4
    /\ UNCHANGED <<texVars, callerVars>>

\* content = re.sub(r'\\\\', '', content)
Sub5LineBreaks ==
    /\ strip_pc = 4
    /\ content' = RemoveLineBreaks(content)
    /\ strip_pc' = 5
    /\ UNCHANGED <<texVars, callerVars>>

\* content = re.sub(r'[ \t\r\f]{3,}', ' ', content)
Sub6Blanks ==
    /\ strip_pc = 5
    /\ content' = CollapseBlanks(content)
    /\ strip_pc' = 6
    /\ UNCHANGED <<texVars, callerVars>>

NextStrip ==
    \/ Sub1LineComments \/ Sub2CommentBlocks \/ Sub3IfFalseBlocks
    \/ Sub4Newlines \/ Sub5LineBreaks \/ Sub6Blanks

SpecStrip == InitStrip /\ [][NextStrip]_vars

\* ------------------------------------------------ the include flattener alone
RootName == <<"m", ".tex">>
SubName == <<"s", ".tex">>
OtherName == <<"t", ".tex">>

\* What a root document is made of: text, \input of s, t, s.tex and of a
\* file that is not there, \include of s.
RootItems ==
    { <<"a">>, InputMarker(<<"s">>), InputMarker(<<"t">>),
      InputMarker(<<"s", ".tex">>), InputMarker(<<"u">>),
      IncludeMarker(<<"s">>) }
SubContents == { <<"b">>, InputMarker(<<"t">>), <<"b">> \o InputMarker(<<"s">>) }
OtherContents == { <<"c">>, InputMarker(<<"s">>) }

\* The archive m.tex, s.tex, t.tex with no .bbl, after the reading loop: m.tex,
\* the only file with the document block, is the root.
InitFlatten ==
    /\ isTar = TRUE
    /\ members = <<RootName, SubName, OtherName>>
    /\ \E r \in TextsOf(RootItems, MaxRootItems), c \in SubContents, o \in OtherContents :
         data = [n \in {RootName, SubName, OtherName} |->
                   IF n = RootName THEN BeginDocument \o r
                   ELSE IF n = SubName THEN c ELSE o]
    /\ pc = "read" /\ entered = <<"tmpdir", "tar">> /\ live = {"tmpdir", "tar"}
    /\ tex_files = members /\ bbl_file = <<>> /\ main_tex = RootName
    /\ file_contents = [k \in 1..3 |-> <<members[k], Str(StripNoise(data[members[k]]))>>]
    /\ idx = 4
    /\ include_files = <<>> /\ main_source = <<>> /\ inc_idx = 1
    /\ tex = NoTable
    /\ InitCallers /\ InitStripIdle

NextFlatten == FindIncludes \/ Substitute \/ ReturnTable

SpecFlatten == InitFlatten /\ [][NextFlatten]_vars

\* ------------------------------------------------- the section extractor alone
SecItems ==
    { SectionIntroduction, SectionConclusion, CmdArg("section", "Methods"),
      <<"a">>, <<NL>>, EndDocument, Bibliography, Appendix,
      <<TILDE>> \o CiteCmd \o <<"p", LB, "b", RB>>,
      BeginFigure \o <<"c">> \o EndFigure }

\* The archive of one file m.tex, which is the root, after tex has returned.
InitSection ==
    /\ isTar = TRUE
    /\ members = <<RootName>>
    /\ data \in [{RootName} -> TextsOf(SecItems, MaxSecItems)]
    /\ pc = "returned" /\ entered = <<>> /\ live = {}
    /\ tex_files = members /\ bbl_file = <<>> /\ main_tex = RootName
    /\ file_contents = << <<RootName, Str(StripNoise(data[RootName]))>>,
                          <<AllKey, Str(StripNoise(data[RootName]))>> >>
    /\ idx = 2
    /\ include_files = <<>> /\ main_source = StripNoise(data[RootName]) /\ inc_idx = 1
    /\ tex = Table(file_contents)
    /\ InitCallers /\ InitStripIdle

NextSection == Tldr \/ Affiliations

SpecSection == InitSection /\ [][NextSection]_vars

\* ------------------------------------------------------------------ claims
Returned == pc = "returned" /\ ~tex.isNone
AllEntry == DictGet(tex.table, AllKey, None)
Stripped(t) == StripNoise(data[t])

\* A name without its extension.
Stem(name) == SubSeq(name, 1, Len(name) - 1)

\* The include loop as one function of the root's content.
RECURSIVE FlattenFrom(_, _, _)
FlattenFrom(source, incs, contents) ==
    IF incs = <<>> THEN source
    ELSE FlattenFrom(SubstituteInclude(source, Head(incs), contents), Tail(incs), contents)

\* The root the decision table names, read as the claim reads it: the only
\* .tex file when there is no .bbl, the .tex file of the single .bbl's stem.
ClaimedTableRoot ==
    IF Len(bbl_file) = 0 /\ Len(tex_files) = 1 THEN tex_files[1]
    ELSE IF Len(bbl_file) = 1 /\ InSeq(Stem(bbl_file[1]) \o <<".tex">>, tex_files)
         THEN Stem(bbl_file[1]) \o <<".tex">>
    ELSE NoName

\* C1: whenever the decision table resolves a root (one .tex and no .bbl, or
\* one .bbl whose stem is the stem of a .tex member), tex uses exactly that
\* file as root, and "all" is built from that file's stripped content.
C1_TableRootIsUsed ==
    (Returned /\ ClaimedTableRoot # NoName) =>
        /\ main_tex = ClaimedTableRoot
        /\ AllEntry = Str(FlattenFrom(Stripped(ClaimedTableRoot),
                                      IncludeFiles(Stripped(ClaimedTableRoot)),
                                      tex.table))

\* C2: when "all" is None while individual files are present, tldr and
\* affiliations fall back to the concatenation of the file contents and go
\* on; neither raises.
C2_FallbackNeverRaises ==
    (Returned /\ AllEntry.isNone /\ Len(tex.table) > 1) =>
        tldr_pc # "raised" /\ aff_pc # "raised"

\* C3: a non-null "all" holds no \input{name} and no \include{name} marker
\* whose target file is a key of the table.
C3_NoResolvableMarkerLeft ==
    (Returned /\ ~AllEntry.isNone) =>
        \A f \in SeqToSet(IncludeFiles(AllEntry.text)) :
            ~DictHas(tex.table, IncludeFileName(f))

\* C4: noise stripping is idempotent: stripping the stripped text changes
\* nothing.
C4_StripIdempotent ==
    strip_pc = 6 => StripNoise(content) = content

\* The end words of the section pattern do not occur in a section after its
\* heading.
ExcludesBoundary(section, heading) ==
    \/ section = <<>>
    \/ /\ OccursAt(section, heading, 1)
       /\ \A k \in 1..Len(EndWords) :
            ~Contains(From(section, Len(heading) + 1), EndWords[k])

\* C5: the Introduction and the Conclusion returned start at their heading
\* and end before the boundary: no part of \section, \end{document},
\* \bibliography or \appendix is in them.
C5_SectionExcludesBoundary ==
    tldr_pc = "done" =>
        /\ ExcludesBoundary(introduction, SectionIntroduction)
        /\ ExcludesBoundary(conclusion, SectionConclusion)

NoBlockAnywhere == \A k \in 1..Len(tex_files) : ~HasDocumentBlock(Stripped(tex_files[k]))

\* C6: tex returns None exactly when the file is no tar archive or the archive
\* has no .tex member; otherwise a table with one entry per .tex member plus
\* "all", which is None exactly when no root was resolved; two .tex files, no
\* .bbl and no document block give "all" = None with both files present.
C6_ThreeOutcomes ==
    pc = "returned" =>
        /\ tex.isNone <=> (~isTar \/ \A k \in 1..Len(members) : ~IsTex(members[k]))
        /\ ~tex.isNone =>
             /\ SeqToSet(DictKeys(tex.table)) =
                  {members[k] : k \in {i \in 1..Len(members) : IsTex(members[i])}}
                    \cup {AllKey}
             /\ Distinct(DictKeys(tex.table))
             /\ AllEntry.isNone <=> main_tex = NoName
             /\ (Len(tex_files) = 2 /\ Len(bbl_file) = 0 /\ NoBlockAnywhere) =>
                  /\ AllEntry.isNone
                  /\ \A k \in 1..2 : ~DictGet(tex.table, tex_files[k], None).isNone

\* The scenario of C6: the table of two files and a null "all" is returned.
C6_Witness ==
    /\ Returned /\ Len(tex_files) = 2 /\ Len(bbl_file) = 0 /\ NoBlockAnywhere
    /\ AllEntry.isNone /\ Len(tex.table) = 3

\* C7: in no terminal state of a call of tex does the temporary directory
\* still exist, whether the call returned a table, returned None or raised.
C7_TmpDirReleased ==
    pc \in {"returned", "raised"} => "tmpdir" \notin live

\* An exception while the files are read, after the archive was opened.
C7_Witness ==
    pc = "raised" /\ Len(tex_files) > 0 /\ idx = 2 /\ live = {}

\* The decision table leaves the root unresolved.
TableUnresolved ==
    \/ Len(bbl_file) = 0 /\ Len(tex_files) > 1
    \/ Len(bbl_file) = 1 /\ ~InSeq(BblMainTex(bbl_file[1]), tex_files)
    \/ Len(bbl_file) > 1

\* The first of the n first .tex files whose stripped content has the
\* document block, NoName when none has.
FirstWithBlock(n) ==
    LET hits == {k \in 1..n : HasDocumentBlock(Stripped(tex_files[k]))}
    IN IF hits = {} THEN NoName
       ELSE tex_files[CHOOSE k \in hits : \A m \in hits : k <= m]

\* C9: when the decision table leaves the root unresolved, the root is the
\* first .tex file in archive order whose stripped content contains
\* \begin{document}; a later file never replaces it; with no such file the
\* root stays null.
C9_FirstDocumentBlockWins ==
    (tex_files # <<>> /\ TableUnresolved) =>
        /\ pc = "read" => main_tex = FirstWithBlock(idx - 1)
        /\ pc \in {"include", "returned"} => main_tex = FirstWithBlock(Len(tex_files))

\* Two files with the document block: the first is the root.
C9_Witness ==
    /\ Returned /\ TableUnresolved /\ Len(tex_files) >= 2
    /\ HasDocumentBlock(Stripped(tex_files[1]))
    /\ HasDocumentBlock(Stripped(tex_files[2]))
    /\ main_tex = tex_files[1]

\* C8: the directives of an included file's own content are never expanded:
\* every \input{x} that entered "all" inside a substituted file's content is
\* still in "all".
C8_NestedDirectivesStay ==
    (Returned /\ ~AllEntry.isNone) =>
        \A f \in SeqToSet(IncludeFiles(Stripped(main_tex))) :
            Contains(Stripped(main_tex), InputMarker(f)) =>
                \A x \in SeqToSet(FindAllArgs(
                           DictGet(tex.table, IncludeFileName(f), Str(<<>>)).text,
                           InputOpen)) :
                    Contains(AllEntry.text, InputMarker(x))

\* The line-comment step as the claim states it: on every line the text from
\* the first percent sign not preceded by a backslash to the end of the line
\* goes, the newline stays, and a last line without a newline is treated alike.
RECURSIVE ClaimedLineComments(_, _, _)
ClaimedLineComments(s, i, inComment) ==
    IF i > Len(s) THEN <<>>
    ELSE IF s[i] = NL THEN <<NL>> \o ClaimedLineComments(s, i + 1, FALSE)
    ELSE IF inComment THEN ClaimedLineComments(s, i + 1, TRUE)
    ELSE IF s[i] = PCT /\ ~(i > 1 /\ s[i - 1] = BS)
         THEN ClaimedLineComments(s, i + 1, TRUE)
    ELSE <<s[i]>> \o ClaimedLineComments(s, i + 1, FALSE)

\* C10: the line-comment step deletes exactly the text from the first
\* unescaped % to the end of its line and keeps the line terminator; \% starts
\* no comment; a comment goes whether or not its line ends with a newline.
C10_LineCommentStep ==
    strip_pc = 1 => content = ClaimedLineComments(data[tex_files[idx]], 1, FALSE)

=============================================================================
